---- MODULE Spec2Model ----
(***************************************************************************)
(* Character-level text generation of the "Generative networks" notebook:  *)
(* the character vocabulary (Tokenizer, eos_token, reverse_map, decode)    *)
(* and the two decoding loops generate and generate_soft.                  *)
(*                                                                         *)
(* A text is a sequence of one-character strings.  A key of word_index is  *)
(* a string: one character, or the five-character word "<eos>".            *)
(* The trained network is opaque: each call model(...) returns a           *)
(* probability vector over 0..vocab_size-1, here in units of 1/Scale.      *)
(***************************************************************************)
EXTENDS Integers, Sequences, FiniteSets, TLC

\* ------------------------------------------------------------------ bounds
MaxTitles == 2      \* titles in the training corpus
MaxTitleLen == 2    \* characters per title
MaxSeedLen == 1     \* characters of the start text
MaxSize == 2        \* the size argument (generation budget)
Scale == 2          \* a probability is k/Scale, k in 0..Scale
MaxInvTemp == 2     \* temperatures are 1/k, k in 1..MaxInvTemp
MaxTokens == 2      \* length of a list handed to decode directly
MaxTextLen == 2     \* characters of a text handed to the codec directly
MaxStubSeedLen == 2 \* characters of the start text given with a stand-in
MaxStubSize == 10   \* the size argument given with a stand-in
MaxRandomState == 1 \* states of np.random are 0..MaxRandomState
MaxBatch == 2       \* titles in a minibatch handed to title_batch
MaxDatasetLen == 2  \* mini-batches of a dataset handed to evaluate
MaxItems == 2       \* items of one mini-batch
MaxLoss == 1        \* a batch loss is 0..MaxLoss units
MaxEpochs == 2      \* epochs of a training run
MaxHundreds == 2    \* a training dataset has up to MaxHundreds * 100 + 1 batches

Alphabet == {"a", "b"}
Sessions == {"first", "second"}
EosWord == "<eos>"

VARIABLES
    word_index,     \* tokenizer.word_index: key -> index
    reverse_map,    \* index -> key
    eos_token,
    vocab_size,
    pure,           \* TRUE: the network is a function of its input alone
    model,          \* the answers a pure network has given: input -> vector
    stub,           \* "none", or the stand-in network: "eos", "cycle", "next"
    calls,          \* calls the cycling stand-in has answered
    rng,            \* the state of numpy's process-wide generator np.random
    batch,          \* title_batch: its argument and what it returned
    loop,           \* fit / evaluate: the dataset and the locals of the call
    pc,             \* per call: "idle", "loop", "break", "done", "raised";
                    \* of a codec evaluation: "encoded", "decoded"
    mode,           \* "generate" or "generate_soft"
    start,          \* the seed text
    size,
    temperature,    \* <<numerator, denominator>>
    inp,            \* the list the network is fed with
    chars,          \* the list that is decoded
    aliased,        \* TRUE while inp and chars name the same list object
    i,              \* iterations of the for loop completed
    out,            \* the vector the network returned in this iteration
    queries,        \* history: the inputs the network was called with
    selected,       \* history: the indices nc drawn so far
    result,         \* the returned text
    exception       \* the exception that left the call, or "none"

vocabulary == <<word_index, reverse_map, eos_token, vocab_size>>
network == <<pure, model, stub, calls>>
frame == <<pc, mode, start, size, temperature, inp, chars, aliased, i, out,
           queries, selected, result, exception>>
training == <<batch, loop>>
vars == <<word_index, reverse_map, eos_token, vocab_size, pure, model,
          stub, calls, rng, batch, loop,
          pc, mode, start, size, temperature, inp, chars, aliased, i, out,
          queries, selected, result, exception>>

\* ------------------------------------------------------------------ helpers
Range(f) == {f[x] : x \in DOMAIN f}

Texts(n) == UNION {[1..k -> Alphabet] : k \in 0..n}

RECURSIVE Flatten(_)
Flatten(texts) ==
    IF texts = <<>> THEN <<>> ELSE Head(texts) \o Flatten(Tail(texts))

RECURSIVE SumTo(_, _)
SumTo(f, n) == IF n < 0 THEN 0 ELSE f[n] + SumTo(f, n - 1)

RECURSIVE Pow(_, _)
Pow(b, e) == IF e = 0 THEN 1 ELSE b * Pow(b, e - 1)

\* The characters of a Python string used as a dictionary key.
Characters(key) ==
    IF key = EosWord THEN <<"<", "e", "o", "s", ">">> ELSE <<key>>

\* ------------------------------------------------------------------ vocabulary
\* Tokenizer(char_level=True, lower=False).fit_on_texts: every character of
\* every title is counted; indices 1.. go to the characters by decreasing
\* count, characters of equal count in order of first occurrence.
fit_on_texts(titles) ==
    LET stream == Flatten(titles)
        seen == Range(stream)
        count(c) == Cardinality({k \in 1..Len(stream) : stream[k] = c})
        first(c) == CHOOSE k \in 1..Len(stream) :
                        /\ stream[k] = c
                        /\ \A j \in 1..(k - 1) : stream[j] # c
        before(d, c) == \/ count(d) > count(c)
                        \/ count(d) = count(c) /\ first(d) < first(c)
    IN  [c \in seen |-> 1 + Cardinality({d \in seen : before(d, c)})]

EosTokenCollides(wi) == Cardinality(DOMAIN wi)

\* eos_token = len(tokenizer.word_index)+1
EosToken(wi) == Cardinality(DOMAIN wi) + 1

WithoutEos(wi) == wi

\* tokenizer.word_index['<eos>'] = eos_token
WithEos(wi) == [k \in DOMAIN wi \cup {EosWord} |->
                   IF k = EosWord THEN EosToken(wi) ELSE wi[k]]

\* vocab_size = eos_token + 1
VocabSize(eos) == eos + 1

\* reverse_map = {val:key for key, val in tokenizer.word_index.items()}
ReverseMap(wi) == [v \in Range(wi) |-> CHOOSE k \in DOMAIN wi : wi[k] = v]

Corpora == UNION {[1..n -> Texts(MaxTitleLen)] : n \in 1..MaxTitles}

\* ------------------------------------------------------------------ codec
\* The tokenizer built without char_level=True: the text is one word.
texts_to_sequences_words(wi, text) ==
    IF Len(text) = 1 /\ text[1] \in DOMAIN wi THEN <<wi[text[1]]>> ELSE <<>>

\* The tokenizer built with an oov_token: a character without an index
\* gets the index of that token.
RECURSIVE texts_to_sequences_oov(_, _)
texts_to_sequences_oov(wi, text) ==
    IF text = <<>> THEN <<>>
    ELSE (IF Head(text) \in DOMAIN wi THEN <<wi[Head(text)]>> ELSE <<1>>)
         \o texts_to_sequences_oov(wi, Tail(text))

\* tokenizer.texts_to_sequences([text])[0]: character by character, a
\* character without an index is left out (no oov_token is configured).
RECURSIVE texts_to_sequences(_, _)
texts_to_sequences(wi, text) ==
    IF text = <<>> THEN <<>>
    ELSE (IF Head(text) \in DOMAIN wi THEN <<wi[Head(text)]>> ELSE <<>>)
         \o texts_to_sequences(wi, Tail(text))

Encode(text) == texts_to_sequences(word_index, text)

GetOrQuestion(rm, t) == IF t \in DOMAIN rm THEN Characters(rm[t]) ELSE <<"?">>

\* reverse_map.get(t,'')
Get(rm, t) == IF t \in DOMAIN rm THEN Characters(rm[t]) ELSE <<>>

\* ''.join([reverse_map.get(t,'') for t in x])
RECURSIVE decode_with(_, _)
decode_with(rm, x) ==
    IF x = <<>> THEN <<>> ELSE Get(rm, Head(x)) \o decode_with(rm, Tail(x))

decode(x) == decode_with(reverse_map, x)

\* ------------------------------------------------------------------ network
Indices == 0..(vocab_size - 1)

\* The vectors the network's softmax layer can return.
Dists == {d \in [Indices -> 0..Scale] : SumTo(d, vocab_size - 1) = Scale}

argmax_last(v) ==
    CHOOSE k \in DOMAIN v :
        /\ \A j \in DOMAIN v : v[j] <= v[k]
        /\ \A j \in DOMAIN v : v[j] = v[k] => j <= k

\* tf.argmax(out): the largest entry, the smallest index among equals.
argmax(v) ==
    CHOOSE k \in DOMAIN v :
        /\ \A j \in DOMAIN v : v[j] <= v[k]
        /\ \A j \in DOMAIN v : v[j] = v[k] => k <= j

\* The rescaling with the temperature left out of it: every entry that is
\* not zero gets the same weight.
RescaleFlat(v, t) == [k \in DOMAIN v |-> IF v[k] > 0 THEN 1 ELSE 0]

\* tf.exp(tf.math.log(out)/temperature) followed by probs/np.sum(probs),
\* for a temperature 1/k: entry p becomes p^k, a zero stays zero.  The
\* result is kept as weights, without the common divisor np.sum(probs).
Rescale(v, t) == [k \in DOMAIN v |-> Pow(v[k], t[2] \div t[1])]

\* The cases in which probs holds NaN after probs/np.sum(probs):
\*   a negative entry: log gives NaN;
\*   temperature 0: log(p)/0 is NaN for p = 1 and -inf otherwise, so all of
\*     exp(..) is NaN or 0 and the sum is NaN or 0;
\*   a negative temperature and some entry 0: exp(+inf) = inf, inf/inf;
\*   a positive temperature and no positive entry: 0/0.
Undefined(v, t) ==
    \/ \E k \in DOMAIN v : v[k] < 0
    \/ t[1] = 0
    \/ t[1] < 0 /\ \E k \in DOMAIN v : v[k] = 0
    \/ t[1] > 0 /\ \A k \in DOMAIN v : v[k] = 0

\* np.argmax(np.random.multinomial(1,probs,1)): the indices a single draw
\* can produce are those of non-zero probability.
Draws(probs) == {k \in DOMAIN probs : probs[k] > 0}

\* ------------------------------------------------------------------ Init
\* The state after the cells that build the vocabulary have run.
Fitted(titles) ==
    /\ word_index = WithEos(fit_on_texts(titles))
    /\ eos_token = EosToken(fit_on_texts(titles))
    /\ vocab_size = VocabSize(EosToken(fit_on_texts(titles)))
    /\ reverse_map = ReverseMap(WithEos(fit_on_texts(titles)))

NoCall ==
    /\ batch = <<>>
    /\ loop = <<>>
    /\ model = <<>>
    /\ calls = 0
    /\ exception = [s \in Sessions |-> "none"]
    /\ pc = [s \in Sessions |-> "idle"]
    /\ mode = [s \in Sessions |-> "generate"]
    /\ start = [s \in Sessions |-> <<>>]
    /\ size = [s \in Sessions |-> 0]
    /\ temperature = [s \in Sessions |-> <<1, 1>>]
    /\ inp = [s \in Sessions |-> <<>>]
    /\ chars = [s \in Sessions |-> <<>>]
    /\ aliased = [s \in Sessions |-> FALSE]
    /\ i = [s \in Sessions |-> 0]
    /\ out = [s \in Sessions |-> <<>>]
    /\ queries = [s \in Sessions |-> <<>>]
    /\ selected = [s \in Sessions |-> <<>>]
    /\ result = [s \in Sessions |-> <<>>]

Cells ==
    /\ \E titles \in Corpora : Fitted(titles)
    /\ NoCall
    /\ stub = "none"
    /\ rng = 0

\* Any network: nothing relates two of its answers.
Init == Cells /\ pure = FALSE

\* A network that is a function of its input: the layers of the notebook's
\* model keep no state between calls.
InitRuns == Cells /\ pure = TRUE

\* ------------------------------------------------------------------ calls
\* The first two statements of generate and of generate_soft:
\*     inp = tokenizer.texts_to_sequences([start])[0]
\*     chars = inp
\* chars is a second name of the list inp, not a copy of it.
Other(s) == CHOOSE o \in Sessions : o # s

\* A list that outlives the call (a mutable default argument).
LeftoverList(s, text) ==
    (IF pc[Other(s)] = "done" THEN chars[Other(s)] ELSE <<>>) \o Encode(text)

\* tokenizer.texts_to_sequences([start])[0]: a new list in every call.
NewList(s, text) == Encode(text)

\* tokenizer.fit_on_texts([start]) in the place of texts_to_sequences: the
\* characters of text that have no index get the next ones.
AfterFitting(wi, text) ==
    LET new == Range(text) \ DOMAIN wi
        rank(c) == Cardinality({k \in 1..Len(text) :
                       /\ text[k] \in new
                       /\ \A j \in 1..Len(text) : text[j] = c => k <= j})
    IN  [c \in DOMAIN wi \cup new |->
            IF c \in DOMAIN wi THEN wi[c] ELSE Cardinality(DOMAIN wi) + rank(c)]

\* texts_to_sequences reads tokenizer.word_index and leaves it as it is.
AfterEncoding(wi, text) == wi

Enter(s, m, text, n, t) ==
    /\ pc[s] = "idle"
    /\ pc' = [pc EXCEPT ![s] = "loop"]
    /\ mode' = [mode EXCEPT ![s] = m]
    /\ start' = [start EXCEPT ![s] = text]
    /\ size' = [size EXCEPT ![s] = n]
    /\ temperature' = [temperature EXCEPT ![s] = t]
    /\ inp' = [inp EXCEPT ![s] = NewList(s, text)]
    /\ chars' = [chars EXCEPT ![s] = NewList(s, text)]
    /\ aliased' = [aliased EXCEPT ![s] = TRUE]
    /\ i' = [i EXCEPT ![s] = 0]
    /\ word_index' = AfterEncoding(word_index, text)
    /\ UNCHANGED <<out, queries, selected, result, exception, reverse_map,
                   eos_token, vocab_size, network, rng,
                   training>>

\* generate(model,size,start)
Generate(s, text, n) == Enter(s, "generate", text, n, <<1, 1>>)

\* generate_soft(model,size,start,temperature)
GenerateSoft(s, text, n, t) == Enter(s, "generate_soft", text, n, t)

\* A vector with all of the probability on index t.
OneHot(t) == [k \in Indices |-> IF k = t THEN Scale ELSE 0]

\* The indices the cycling stand-in puts the probability on, one per call.
Cycle == <<1, 2, 3, 4>>

\* The answer of a stand-in network: "eos" always puts the probability on
\* eos_token, "cycle" on the next index of Cycle.
StubAnswer ==
    OneHot(IF stub = "eos" THEN eos_token ELSE Cycle[(calls % Len(Cycle)) + 1])

\* The index the stand-in "next" puts the probability on: the one after
\* the last token of its input, eos_token after the last character.
NextIndex(q) == (q[Len(q)] % eos_token) + 1

HasNextInclusive(k, n) == k <= n

\* for i in range(size): another iteration follows
HasNext(k, n) == k < n

\* model(tf.expand_dims(tf.one_hot(inp,vocab_size),0)): the call is recorded,
\* and a network that is a function gives the answer it gave before.
Answers(s, v) ==
    /\ v \in Dists
    /\ (pure /\ inp[s] \in DOMAIN model) => v = model[inp[s]]
    /\ stub \in {"eos", "cycle"} => v = StubAnswer
    /\ stub = "next" => v = OneHot(NextIndex(inp[s]))

Queried(s, v) ==
    /\ out' = [out EXCEPT ![s] = v]
    /\ queries' = [queries EXCEPT ![s] = Append(@, inp[s])]
    /\ pure' = pure
    /\ stub' = stub
    /\ calls' = IF stub = "cycle" THEN calls + 1 ELSE calls
    /\ model' = IF pure
                THEN [q \in DOMAIN model \cup {inp[s]} |->
                         IF q = inp[s] THEN v ELSE model[q]]
                ELSE model

\* A call of the network in an iteration that draws nothing from np.random,
\* or whose draw is left open.
Asked(s, v) == Queried(s, v) /\ rng' = rng

CharsAppendTwice(cs, nc) == Append(Append(cs, nc), nc)

\* chars.append(nc)
CharsAppend(cs, nc) == Append(cs, nc)

\* inp = inp+[nc], evaluated after chars.append(nc): while inp is the list
\* chars names, the operand already ends with nc.
InpPlus(old, cs, shared, nc) == (IF shared THEN cs ELSE old) \o <<nc>>

BreaksOnVocabSize(nc) == nc = vocab_size

BreaksOnPadding(nc) == nc = 0

\* if nc==eos_token: break
Breaks(nc) == nc = eos_token

\* The rest of an iteration once nc is known:
\*     if nc==eos_token: break
\*     chars.append(nc); inp = inp+[nc]
Continue(s, nc) ==
    /\ selected' = [selected EXCEPT ![s] = Append(@, nc)]
    /\ IF Breaks(nc)
       THEN /\ pc' = [pc EXCEPT ![s] = "break"]
            /\ UNCHANGED <<chars, inp, aliased, i>>
       ELSE /\ chars' = [chars EXCEPT ![s] = CharsAppend(@, nc)]
            /\ inp' = [inp EXCEPT ![s] =
                          InpPlus(@, CharsAppend(chars[s], nc), aliased[s], nc)]
            /\ aliased' = [aliased EXCEPT ![s] = FALSE]
            /\ i' = [i EXCEPT ![s] = @ + 1]
            /\ pc' = pc
    /\ UNCHANGED <<mode, start, size, temperature, result, exception,
                   vocabulary,
                   training>>

\* One iteration of generate's loop.
GenerateStep(s, v) ==
    /\ pc[s] = "loop" /\ mode[s] = "generate"
    /\ HasNext(i[s], size[s])
    /\ inp[s] # <<>>
    /\ Answers(s, v)
    /\ Asked(s, v)
    /\ Continue(s, argmax(v))

\* One iteration of generate_soft's loop.
GenerateSoftStep(s, v, nc) ==
    /\ pc[s] = "loop" /\ mode[s] = "generate_soft"
    /\ HasNext(i[s], size[s])
    /\ inp[s] # <<>>
    /\ Answers(s, v)
    /\ ~Undefined(v, temperature[s])
    /\ nc \in Draws(Rescale(v, temperature[s]))
    /\ Asked(s, v)
    /\ Continue(s, nc)

Swallow(p) == "loop"

\* Neither function has a try statement: an exception raised in the loop
\* leaves the function.
Unwind(p) == "raised"

\* model(...)[0][-1] for an empty inp: the network has no position to
\* answer for, and the call raises.
NoPosition(s) ==
    /\ pc[s] = "loop"
    /\ HasNext(i[s], size[s])
    /\ inp[s] = <<>>
    /\ queries' = [queries EXCEPT ![s] = Append(@, inp[s])]
    /\ pc' = [pc EXCEPT ![s] = Unwind(@)]
    /\ exception' = [exception EXCEPT ![s] = "InvalidArgumentError"]
    /\ UNCHANGED <<mode, start, size, temperature, inp, chars, aliased, i,
                   out, selected, result, vocabulary, network, rng,
                   training>>

\* return decode(chars), after break or after the last iteration.
Return(s) ==
    /\ \/ pc[s] = "break"
       \/ pc[s] = "loop" /\ ~HasNext(i[s], size[s])
    /\ result' = [result EXCEPT ![s] = decode(chars[s])]
    /\ pc' = [pc EXCEPT ![s] = "done"]
    /\ UNCHANGED <<mode, start, size, temperature, inp, chars, aliased, i,
                   out, queries, selected, exception, vocabulary, network, rng,
                   training>>

Temperatures == {<<1, k>> : k \in 1..MaxInvTemp}

\* ------------------------------------------------------------------ Spec
\* One call of generate or generate_soft, any network.
Next ==
    \/ \E text \in Texts(MaxSeedLen), n \in 0..MaxSize :
          Generate("first", text, n)
    \/ \E text \in Texts(MaxSeedLen), n \in 0..MaxSize, t \in Temperatures :
          GenerateSoft("first", text, n, t)
    \/ \E v \in Dists : GenerateStep("first", v)
    \/ \E v \in Dists, nc \in Indices : GenerateSoftStep("first", v, nc)
    \/ NoPosition("first")
    \/ Return("first")

Spec == Init /\ [][Next]_vars

\* ------------------------------------------------------------------ SpecRuns
\* generate called twice, one call after the other, with the same
\* arguments and the same network, which is a function of its input.
GenerateAgain(s) ==
    /\ pc[Other(s)] \in {"done", "raised"}
    /\ mode[Other(s)] = "generate"
    /\ Generate(s, start[Other(s)], size[Other(s)])

NextRuns ==
    \/ \E text \in Texts(MaxSeedLen), n \in 0..MaxSize :
          Generate("first", text, n)
    \/ GenerateAgain("second")
    \/ \E s \in Sessions, v \in Dists : GenerateStep(s, v)
    \/ \E s \in Sessions : NoPosition(s)
    \/ \E s \in Sessions : Return(s)

SpecRuns == InitRuns /\ [][NextRuns]_vars

\* ------------------------------------------------------------------ SpecCodec
\* The codec on its own: the cell tokenizer.texts_to_sequences([...]) and
\* decode applied to a list of integers, to the one just encoded or to any.
TextsToSequences(s, text) ==
    /\ pc[s] = "idle"
    /\ pc' = [pc EXCEPT ![s] = "encoded"]
    /\ start' = [start EXCEPT ![s] = text]
    /\ chars' = [chars EXCEPT ![s] = Encode(text)]
    /\ UNCHANGED <<mode, size, temperature, inp, aliased, i, out, queries,
                   selected, result, exception, vocabulary, network, rng,
                   training>>

DecodeEncoded(s) ==
    /\ pc[s] = "encoded"
    /\ pc' = [pc EXCEPT ![s] = "decoded"]
    /\ result' = [result EXCEPT ![s] = decode(chars[s])]
    /\ UNCHANGED <<mode, start, size, temperature, inp, chars, aliased, i,
                   out, queries, selected, exception, vocabulary, network, rng,
                   training>>

Decode(s, x) ==
    /\ pc[s] = "idle"
    /\ pc' = [pc EXCEPT ![s] = "decoded"]
    /\ chars' = [chars EXCEPT ![s] = x]
    /\ result' = [result EXCEPT ![s] = decode(x)]
    /\ UNCHANGED <<mode, start, size, temperature, inp, aliased, i, out,
                   queries, selected, exception, vocabulary, network, rng,
                   training>>

\* Integers with and without a character: -1, the padding index 0, the
\* character indices, eos_token, and vocab_size, which is past all of them.
TokenLists == UNION {[1..k -> -1..vocab_size] : k \in 0..MaxTokens}

NextCodec ==
    \/ \E text \in Texts(MaxTextLen) : TextsToSequences("first", text)
    \/ DecodeEncoded("first")
    \/ \E x \in TokenLists : Decode("first", x)

SpecCodec == Init /\ [][NextCodec]_vars

\* ------------------------------------------------------------------ SpecStub
\* generate with the vocabulary {'a':1,'b':2,'c':3,'<eos>':4} and a stand-in
\* network, called once with a start over the characters a, b, c and d.
StubTitles == <<<<"a", "a", "a">>, <<"b", "b">>, <<"c">>>>

StubTexts == UNION {[1..k -> {"a", "b", "c", "d"}] : k \in 0..MaxStubSeedLen}

InitStub ==
    /\ Fitted(StubTitles)
    /\ NoCall
    /\ pure = FALSE
    /\ stub \in {"eos", "cycle"}
    /\ rng = 0

NextStub ==
    \/ \E text \in StubTexts, n \in 0..MaxStubSize : Generate("first", text, n)
    \/ GenerateStep("first", StubAnswer)
    \/ NoPosition("first")
    \/ Return("first")

SpecStub == InitStub /\ [][NextStub]_vars

\* ------------------------------------------------------------------ SpecFaults
\* One call of generate or generate_soft with a network that nothing in the
\* two functions rules out: its call raises, or its answer is no
\* distribution.
\* Vectors that are no distribution over the vocab_size indices: all zeros,
\* a negative entry, one entry too many.
Malformed ==
    {[k \in Indices |-> 0],
     [k \in Indices |-> IF k = 0 THEN -1 ELSE 1],
     [k \in 0..vocab_size |-> IF k = vocab_size THEN Scale ELSE 0]}

\* The checks of the loop body before a vector is used: there are none.
Admits(s, v) == pc[s] = "loop" /\ HasNext(i[s], size[s]) /\ inp[s] # <<>>

\* generate's iteration on a vector that is no distribution: tf.argmax
\* takes any vector.
GenerateStepMalformed(s, v) ==
    /\ mode[s] = "generate"
    /\ Admits(s, v)
    /\ v \in Malformed
    /\ Asked(s, v)
    /\ Continue(s, argmax(v))

\* generate_soft's iteration on a vector that is no distribution but leaves
\* probs free of NaN.
GenerateSoftStepMalformed(s, v, nc) ==
    /\ mode[s] = "generate_soft"
    /\ Admits(s, v)
    /\ v \in Malformed
    /\ ~Undefined(v, temperature[s])
    /\ nc \in Draws(Rescale(v, temperature[s]))
    /\ Asked(s, v)
    /\ Continue(s, nc)

\* np.random.multinomial(1,probs,1) on probs that hold NaN, in a numpy that
\* checks pvals: ValueError.
NaNRaises(s, v) ==
    /\ mode[s] = "generate_soft"
    /\ Admits(s, v)
    /\ v \in Dists \cup Malformed
    /\ Undefined(v, temperature[s])
    /\ Asked(s, v)
    /\ pc' = [pc EXCEPT ![s] = Unwind(@)]
    /\ exception' = [exception EXCEPT ![s] = "ValueError"]
    /\ UNCHANGED <<mode, start, size, temperature, inp, chars, aliased, i,
                   selected, result, vocabulary,
                   training>>

\* The same call in a numpy that only tests sum(pvals[:-1]) > 1.0, which is
\* false for NaN: the draw is made from NaN and gives some index.
NaNDraws(s, v, nc) ==
    /\ mode[s] = "generate_soft"
    /\ Admits(s, v)
    /\ v \in Dists \cup Malformed
    /\ Undefined(v, temperature[s])
    /\ nc \in DOMAIN v
    /\ Asked(s, v)
    /\ Continue(s, nc)

\* model(...) raises: the exception leaves the loop and the function.
NetworkRaises(s) ==
    /\ Admits(s, <<>>)
    /\ queries' = [queries EXCEPT ![s] = Append(@, inp[s])]
    /\ pc' = [pc EXCEPT ![s] = Unwind(@)]
    /\ exception' = [exception EXCEPT ![s] = "NetworkError"]
    /\ UNCHANGED <<mode, start, size, temperature, inp, chars, aliased, i,
                   out, selected, result, vocabulary, network, rng,
                   training>>

NextFaults ==
    \/ \E text \in Texts(MaxSeedLen), n \in 0..MaxSize :
          Generate("first", text, n)
    \/ \E text \in Texts(MaxSeedLen), n \in 0..MaxSize :
          GenerateSoft("first", text, n, <<1, 1>>)
    \/ \E v \in Dists : GenerateStep("first", v)
    \/ \E v \in Dists, nc \in Indices : GenerateSoftStep("first", v, nc)
    \/ \E v \in Malformed : GenerateStepMalformed("first", v)
    \/ \E v \in Malformed, nc \in 0..vocab_size :
          GenerateSoftStepMalformed("first", v, nc)
    \/ \E v \in Malformed : NaNRaises("first", v)
    \/ \E v \in Malformed, nc \in 0..vocab_size : NaNDraws("first", v, nc)
    \/ NetworkRaises("first")
    \/ NoPosition("first")
    \/ Return("first")

SpecFaults == Init /\ [][NextFaults]_vars

\* ------------------------------------------------------------------ SpecTemp
\* One call of generate_soft with temperature=0: nothing in the function
\* looks at the argument before the division.
Zero == <<0, 1>>

NextTemp ==
    \/ \E text \in Texts(MaxSeedLen), n \in 0..MaxSize :
          GenerateSoft("first", text, n, Zero)
    \/ \E v \in Dists : NaNRaises("first", v)
    \/ \E v \in Dists, nc \in Indices : NaNDraws("first", v, nc)
    \/ NoPosition("first")
    \/ Return("first")

SpecTemp == Init /\ [][NextTemp]_vars

\* ------------------------------------------------------------------ SpecRandom
\* generate_soft called twice, one call after the other, with the same
\* arguments and the same network (a function of its input), in a process
\* whose generator np.random was seeded once, before the first call.
\* np.random.multinomial(1,probs,1) is a function of the generator's state
\* and of probs, and moves the generator to its next state.  Here the
\* outcome is the index of non-zero probability whose rank is the state
\* modulo the number of such indices.
RandomStates == 0..MaxRandomState

Advance(r) == (r + 1) % (MaxRandomState + 1)

Pick(probs, r) ==
    LET S == Draws(probs)
    IN  CHOOSE k \in S : Cardinality({j \in S : j < k}) = r % Cardinality(S)

\* One iteration of generate_soft's loop, the draw taken from np.random.
SampleStep(s, v) ==
    /\ pc[s] = "loop" /\ mode[s] = "generate_soft"
    /\ HasNext(i[s], size[s])
    /\ inp[s] # <<>>
    /\ Answers(s, v)
    /\ ~Undefined(v, temperature[s])
    /\ Queried(s, v)
    /\ rng' = Advance(rng)
    /\ Continue(s, Pick(Rescale(v, temperature[s]), rng))

SampleAgain(s) ==
    /\ pc[Other(s)] \in {"done", "raised"}
    /\ mode[Other(s)] = "generate_soft"
    /\ GenerateSoft(s, start[Other(s)], size[Other(s)], temperature[Other(s)])

InitRandom ==
    /\ \E titles \in Corpora : Fitted(titles)
    /\ NoCall
    /\ stub = "none"
    /\ pure = TRUE
    /\ rng \in RandomStates

NextRandom ==
    \/ \E text \in Texts(MaxSeedLen), n \in 0..MaxSize, t \in Temperatures :
          GenerateSoft("first", text, n, t)
    \/ SampleAgain("second")
    \/ \E s \in Sessions, v \in Dists : SampleStep(s, v)
    \/ \E s \in Sessions : NoPosition(s)
    \/ \E s \in Sessions : Return(s)

SpecRandom == InitRandom /\ [][NextRandom]_vars

\* ------------------------------------------------------------------ SpecSessions
\* Two calls of generate whose iterations interleave in any order, each
\* with its own arguments; both use the one tokenizer and the one network,
\* a stand-in that is a function of its input.
InitSessions ==
    /\ \E titles \in Corpora : Fitted(titles)
    /\ NoCall
    /\ pure = TRUE
    /\ stub \in {"eos", "next"}
    /\ rng = 0

NextSessions ==
    \/ \E s \in Sessions, text \in Texts(MaxSeedLen), n \in 0..MaxSize :
          Generate(s, text, n)
    \/ \E s \in Sessions, v \in Dists : GenerateStep(s, v)
    \/ \E s \in Sessions : NoPosition(s)
    \/ \E s \in Sessions : Return(s)

SpecSessions == InitSessions /\ [][NextSessions]_vars

\* ------------------------------------------------------------------ SpecLimit
\* One call of generate_soft with a network whose probabilities are given
\* one step finer, in units of 1/Fine, so that a vector can hold a largest
\* entry next to smaller ones that are not zero.
Fine == Scale + 1

FineDists == {d \in [Indices -> 0..Fine] : SumTo(d, vocab_size - 1) = Fine}

\* One iteration of generate_soft's loop on such a vector.
GenerateSoftStepFine(s, v, nc) ==
    /\ mode[s] = "generate_soft"
    /\ Admits(s, v)
    /\ v \in FineDists
    /\ ~Undefined(v, temperature[s])
    /\ nc \in Draws(Rescale(v, temperature[s]))
    /\ Asked(s, v)
    /\ Continue(s, nc)

NextLimit ==
    \/ \E text \in Texts(MaxSeedLen), n \in 0..(MaxSize - 1),
          t \in Temperatures :
          GenerateSoft("first", text, n, t)
    \/ \E v \in FineDists, nc \in Indices : GenerateSoftStepFine("first", v, nc)
    \/ NoPosition("first")
    \/ Return("first")

SpecLimit == Init /\ [][NextLimit]_vars

\* ------------------------------------------------------------------ SpecFloat
\* One call of generate_soft with the rescaling as the float32 tensors of
\* the network compute it.  tf.exp(tf.math.log(out)/temperature) is a
\* float32 tensor before .numpy().astype(np.float64): its smallest positive
\* value is 2^-SmallestExponent, a result of at most half of that is 0, and
\* a result of at least 2^-NormalExponent is a normal number.
SmallestExponent == 149

NormalExponent == 126

\* The largest h with p <= 2^-h for the entry p = v/Scale.
RECURSIVE Halvings(_)
Halvings(v) == IF v = 0 \/ 2 * v > Scale THEN 0 ELSE 1 + Halvings(2 * v)

\* What exp(log(p)/temperature) can be for temperature 1/k, as 0 or
\* "positive" (1): p^k is at most 2^-(h*k) and more than 2^-((h+1)*k).
\* Between sure underflow and a sure normal number both are possible.
Float32(v, t) ==
    LET k == t[2] \div t[1]
    IN  CASE v = 0 -> {0}
          [] v = Scale -> {1}
          [] Halvings(v) * k > SmallestExponent + 1 -> {0}
          [] (Halvings(v) + 1) * k <= NormalExponent -> {1}
          [] OTHER -> {0, 1}

\* The values probs can have before probs/np.sum(probs).
RescaleFloat32(v, t) ==
    {f \in [DOMAIN v -> {0, 1}] : \A j \in DOMAIN v : f[j] \in Float32(v[j], t)}

Underflown(f) == \A j \in DOMAIN f : f[j] = 0

\* Temperatures 1 and 1/(SmallestExponent + 2), about 0.0066.
ColdTemperatures == {<<1, 1>>, <<1, SmallestExponent + 2>>}

\* An iteration in which some entry of probs is positive.
GenerateSoftStepFloat32(s, v, f, nc) ==
    /\ mode[s] = "generate_soft"
    /\ Admits(s, v)
    /\ Answers(s, v)
    /\ f \in RescaleFloat32(v, temperature[s])
    /\ ~Underflown(f)
    /\ nc \in Draws(f)
    /\ Asked(s, v)
    /\ Continue(s, nc)

\* An iteration in which every entry of probs is 0: np.sum(probs) is 0,
\* probs/np.sum(probs) is NaN in every entry, and multinomial raises.
UnderflowRaises(s, v, f) ==
    /\ mode[s] = "generate_soft"
    /\ Admits(s, v)
    /\ Answers(s, v)
    /\ f \in RescaleFloat32(v, temperature[s])
    /\ Underflown(f)
    /\ Asked(s, v)
    /\ pc' = [pc EXCEPT ![s] = Unwind(@)]
    /\ exception' = [exception EXCEPT ![s] = "ValueError"]
    /\ UNCHANGED <<mode, start, size, temperature, inp, chars, aliased, i,
                   selected, result, vocabulary,
                   training>>

\* The same iteration in a numpy that only tests sum(pvals[:-1]) > 1.0:
\* the draw is made from NaN and gives some index.
UnderflowDraws(s, v, f, nc) ==
    /\ mode[s] = "generate_soft"
    /\ Admits(s, v)
    /\ Answers(s, v)
    /\ f \in RescaleFloat32(v, temperature[s])
    /\ Underflown(f)
    /\ nc \in DOMAIN v
    /\ Asked(s, v)
    /\ Continue(s, nc)

NextFloat ==
    \/ \E text \in Texts(MaxSeedLen), n \in 0..MaxSize,
          t \in ColdTemperatures : GenerateSoft("first", text, n, t)
    \/ \E v \in Dists : \E f \in RescaleFloat32(v, temperature["first"]) :
          \E nc \in Indices : GenerateSoftStepFloat32("first", v, f, nc)
    \/ \E v \in Dists : \E f \in RescaleFloat32(v, temperature["first"]) :
          UnderflowRaises("first", v, f)
    \/ \E v \in Dists : \E f \in RescaleFloat32(v, temperature["first"]) :
          \E nc \in Indices : UnderflowDraws("first", v, f, nc)
    \/ NoPosition("first")
    \/ Return("first")

SpecFloat == Init /\ [][NextFloat]_vars

\* ------------------------------------------------------------------ SpecBatch
\* title_batch applied to one minibatch of titles.
RECURSIVE Longest(_)
Longest(zs) ==
    IF zs = <<>> THEN 0
    ELSE LET rest == Longest(Tail(zs))
         IN  IF Len(Head(zs)) > rest THEN Len(Head(zs)) ELSE rest

\* tf.keras.preprocessing.sequence.pad_sequences(z): every row is brought
\* to the length of the longest one by zeros put in front of it.
pad_sequences(zs) ==
    [r \in 1..Len(zs) |->
        [k \in 1..(Longest(zs) - Len(zs[r])) |-> 0] \o zs[r]]

\* tf.one_hot(z,vocab_size) for one index.
one_hot(t) == [k \in Indices |-> IF k = t THEN 1 ELSE 0]

ShiftedWithPadding(row) == SubSeq(row, 2, Len(row)) \o <<0>>

\* tf.concat([z[:,1:],tf.constant(eos_token,shape=(len(z),1))],axis=1)
\* for one row.
Shifted(row) == SubSeq(row, 2, Len(row)) \o <<eos_token>>

title_batch(x) ==
    LET z == pad_sequences([r \in 1..Len(x) |-> Encode(x[r])])
    IN  [x |-> x,
         inputs |-> [r \in 1..Len(x) |->
                        [k \in 1..Len(z[r]) |-> one_hot(z[r][k])]],
         targets |-> [r \in 1..Len(x) |->
                        [k \in 1..Len(Shifted(z[r])) |->
                            one_hot(Shifted(z[r])[k])]]]

Batches == UNION {[1..n -> Texts(MaxTextLen)] : n \in 1..MaxBatch}

TitleBatch(x) ==
    /\ batch = <<>>
    /\ batch' = title_batch(x)
    /\ UNCHANGED <<vocabulary, network, frame, rng, loop>>

NextBatch == \E x \in Batches : TitleBatch(x)

SpecBatch == Init /\ [][NextBatch]_vars

\* ------------------------------------------------------------------ SpecEvaluate
\* 6-execution.ipynb: evaluate run over one dataset.  A dataset is the
\* sequence of its mini-batch sizes; what the model answers for a batch is
\* the number of items whose argmax equals the label and the batch loss.
\* A quotient is kept as <<numerator, denominator>>.
InitTraining ==
    /\ Fitted(StubTitles)
    /\ NoCall
    /\ pure = FALSE
    /\ stub = "none"
    /\ rng = 0

Datasets == UNION {[1..n -> 1..MaxItems] : n \in 1..MaxDatasetLen}

Losses == 0..MaxLoss

PerItem(locals) == <<locals.loss_sum, locals.current_item_count>>

\* average_loss = loss_sum / batch_count
AverageLoss(locals) == <<locals.loss_sum, locals.batch_count>>

\* accuracy = correct_item_count / current_item_count
Accuracy(locals) ==
    <<locals.correct_item_count, locals.current_item_count>>

\* The four assignments before the loop.
EvaluateEnter(dataset) ==
    /\ loop = <<>>
    /\ loop' = [at |-> "for", dataset |-> dataset,
                batch_count |-> Len(dataset), loss_sum |-> 0,
                correct_item_count |-> 0, current_item_count |-> 0,
                taken |-> 0, evaluated |-> <<>>, returned |-> <<>>]
    /\ UNCHANGED <<vocabulary, network, frame, rng, batch>>

\* One iteration: the next mini-batch of the dataset goes to
\* evaluate_one_batch, whose answer has `correct` matching items and the
\* loss `loss`.
EvaluateOneBatch(correct, loss) ==
    /\ loop # <<>>
    /\ loop.at = "for"
    /\ loop.taken < Len(loop.dataset)
    /\ correct <= loop.dataset[loop.taken + 1]
    /\ loop' = [loop EXCEPT
           !.taken = @ + 1,
           !.evaluated = Append(@, [batch |-> loop.taken + 1,
                                    correct |-> correct, loss |-> loss]),
           !.correct_item_count = @ + correct,
           !.loss_sum = @ + loss,
           !.current_item_count = @ + loop.dataset[loop.taken + 1]]
    /\ UNCHANGED <<vocabulary, network, frame, rng, batch>>

\* The dataset is exhausted: the two quotients and the return.
EvaluateReturn ==
    /\ loop # <<>>
    /\ loop.at = "for"
    /\ loop.taken = Len(loop.dataset)
    /\ loop' = [loop EXCEPT
           !.at = "returned",
           !.returned = <<AverageLoss(loop), Accuracy(loop)>>]
    /\ UNCHANGED <<vocabulary, network, frame, rng, batch>>

NextEvaluate ==
    \/ \E dataset \in Datasets : EvaluateEnter(dataset)
    \/ \E correct \in 0..MaxItems, loss \in Losses :
           EvaluateOneBatch(correct, loss)
    \/ EvaluateReturn

SpecEvaluate == InitTraining /\ [][NextEvaluate]_vars

\* ------------------------------------------------------------------ SpecFit
\* 6-execution.ipynb: the epoch loop and fit.  A training dataset is its
\* number of mini-batches, the size of a full mini-batch and the size of
\* the last one; `answers` says for which batches the model's argmax
\* matches the labels.
print_every == 100

BatchCounts ==
    {h * print_every + d : h \in 0..MaxHundreds, d \in {-1, 0, 1}} \ {-1, 0}

TrainDatasets ==
    {[batch_count |-> n, batch_size |-> b, last |-> l] :
        n \in BatchCounts, b \in 1..MaxItems, l \in 1..MaxItems}

ModelAnswers == {"none", "all", "odd"}

\* len(X) of the mini-batch at 0-based position batch_index.
LenX(dataset, batch_index) ==
    IF batch_index + 1 = dataset.batch_count THEN dataset.last
    ELSE dataset.batch_size

\* (tf.math.argmax(y_prime, axis=1) == y).numpy().sum()
Matching(answers, dataset, batch_index) ==
    CASE answers = "none" -> 0
      [] answers = "all" -> LenX(dataset, batch_index)
      [] answers = "odd" ->
            IF batch_index % 2 = 0 THEN LenX(dataset, batch_index) ELSE 0

ReportsZeroBased(batch_index, batch_count) ==
    \/ batch_index % print_every = 0
    \/ (batch_index + 1) = batch_count

\* if ((batch_index + 1) % print_every == 0) or
\*    ((batch_index + 1) == batch_count):
Reports(batch_index, batch_count) ==
    \/ (batch_index + 1) % print_every = 0
    \/ (batch_index + 1) = batch_count

\* The cell that trains: epochs, train_dataset and the model are set.
Train(epochs, dataset, answers) ==
    /\ loop = <<>>
    /\ dataset.last <= dataset.batch_size
    /\ dataset.batch_count = 1 => dataset.last = dataset.batch_size
    /\ loop' = [at |-> "epoch", epochs |-> epochs, epoch |-> 0,
                dataset |-> dataset, answers |-> answers, updates |-> 0,
                batch_count |-> 0, batch_index |-> 0, loss_sum |-> 0,
                correct_item_count |-> 0, current_item_count |-> 0,
                fitted |-> <<>>, printed |-> <<>>]
    /\ UNCHANGED <<vocabulary, network, frame, rng, batch>>

\* for epoch in range(epochs): fit(...) up to the for statement of fit.
FitEnter ==
    /\ loop # <<>>
    /\ loop.at = "epoch"
    /\ loop.epoch < loop.epochs
    /\ loop' = [loop EXCEPT
           !.at = "for", !.batch_count = loop.dataset.batch_count,
           !.batch_index = 0, !.loss_sum = 0, !.correct_item_count = 0,
           !.current_item_count = 0, !.fitted = <<>>, !.printed = <<>>]
    /\ UNCHANGED <<vocabulary, network, frame, rng, batch>>

\* One iteration of the loop of fit: fit_one_batch applies the gradients
\* once, the counters move, and the line is printed when it is due.
FitOneBatch ==
    /\ loop # <<>>
    /\ loop.at = "for"
    /\ loop.batch_index < loop.dataset.batch_count
    /\ loop' = [loop EXCEPT
           !.updates = @ + 1,
           !.fitted = Append(@, loop.batch_index + 1),
           !.correct_item_count =
               @ + Matching(loop.answers, loop.dataset, loop.batch_index),
           !.loss_sum = @ + (loop.batch_index % (MaxLoss + 1)),
           !.current_item_count = @ + LenX(loop.dataset, loop.batch_index),
           !.printed =
               IF Reports(loop.batch_index, loop.batch_count)
               THEN Append(@, loop.batch_index + 1) ELSE @,
           !.batch_index = @ + 1]
    /\ UNCHANGED <<vocabulary, network, frame, rng, batch>>

\* The dataset is exhausted: fit returns to the epoch loop.
FitReturn ==
    /\ loop # <<>>
    /\ loop.at = "for"
    /\ loop.batch_index = loop.dataset.batch_count
    /\ loop' = [loop EXCEPT !.at = "epoch", !.epoch = @ + 1]
    /\ UNCHANGED <<vocabulary, network, frame, rng, batch>>

NextFit ==
    \/ \E epochs \in 1..MaxEpochs, dataset \in TrainDatasets,
          answers \in ModelAnswers : Train(epochs, dataset, answers)
    \/ FitEnter
    \/ FitOneBatch
    \/ FitReturn

SpecFit == InitTraining /\ [][NextFit]_vars

\* ------------------------------------------------------------------ claims
\* What a claim reads off a call.
Seed(s) == Encode(start[s])
Generated(s) == SubSeq(chars[s], Len(Seed(s)) + 1, Len(chars[s]))
Entered(s) == pc[s] \in {"loop", "break", "done", "raised"}
Last(q) == q[Len(q)]
Front(q) == SubSeq(q, 1, Len(q) - 1)
EosSelected(s) == selected[s] # <<>> /\ Last(selected[s]) = eos_token
NotEos(t) == t # eos_token
Marker == <<"<", "e", "o", "s", ">">>
Contains(text, word) ==
    \E k \in 0..(Len(text) - Len(word)) :
        SubSeq(text, k + 1, k + Len(word)) = word

\* C1: generate and generate_soft append at most size tokens to the encoded
\* seed: in every state of a call the decoded list chars is no longer than
\* len(encode(start)) + size, and neither is the returned text.
C1_BoundedLength ==
    \A s \in Sessions :
        Entered(s) =>
            /\ Len(chars[s]) <= Len(Seed(s)) + size[s]
            /\ pc[s] = "done" => Len(result[s]) <= Len(Seed(s)) + size[s]

C1_Witness ==
    /\ pc["first"] = "done"
    /\ mode["first"] = "generate_soft"
    /\ size["first"] = MaxSize
    /\ Len(chars["first"]) = Len(Seed("first")) + MaxSize
    /\ Len(result["first"]) = Len(Seed("first")) + MaxSize

\* C2: on every iteration the network is called with the current token
\* sequence: the encoded seed followed by the tokens appended so far, each
\* once and in order, which is the list that would be decoded.
C2_QueriesCurrentSequence ==
    \A s \in Sessions :
        /\ \A k \in 1..Len(queries[s]) :
              queries[s][k] = Seed(s) \o SubSeq(selected[s], 1, k - 1)
        /\ (pc[s] = "loop" /\ HasNext(i[s], size[s])) => inp[s] = chars[s]

\* C3: eos_token is never an element of the token sequence of a call; the
\* returned text is the decoding of the seed followed by the drawn tokens
\* other than eos, and does not contain the end-of-sequence marker.
C3_EosNeverAppended ==
    \A s \in Sessions :
        /\ eos_token \notin Range(chars[s])
        /\ eos_token \notin Range(inp[s])
        /\ pc[s] = "done" =>
              /\ result[s] = decode(Seed(s)) \o
                             decode(SelectSeq(selected[s], NotEos))
              /\ ~Contains(result[s], Marker)

C3_Witness ==
    /\ pc["first"] = "done"
    /\ Len(selected["first"]) = MaxSize
    /\ EosSelected("first")
    /\ result["first"] # decode(Seed("first"))

\* C4: when, in iteration k of generate (k = 0, 1, ... below size), eos is
\* the single most probable token of the returned vector, and was not
\* selected before, the loop stops with exactly k tokens generated, and the
\* returned text decodes the seed and those k tokens only.
SingleMax(v, t) == \A j \in DOMAIN v : j # t => v[j] < v[t]

C4_StopsAtEos ==
    \A s \in Sessions :
        (/\ mode[s] = "generate"
         /\ queries[s] # <<>>
         /\ pc[s] # "raised"
         /\ SingleMax(out[s], eos_token)) =>
            /\ pc[s] \in {"break", "done"}
            /\ Len(queries[s]) = i[s] + 1
            /\ Len(Generated(s)) = i[s]
            /\ eos_token \notin Range(Front(selected[s]))
            /\ pc[s] = "done" =>
                  result[s] = decode(Seed(s) \o Front(selected[s]))

C4_Witness ==
    /\ pc["first"] = "done"
    /\ mode["first"] = "generate"
    /\ SingleMax(out["first"], eos_token)
    /\ i["first"] = MaxSize - 1
    /\ Len(Generated("first")) = MaxSize - 1
    /\ size["first"] = MaxSize

\* C5: a stopped call is terminal.  Once eos has been selected, or size
\* tokens have been appended, the network is not called again; a call asks
\* the network at most size times, and exactly (tokens appended + 1) times
\* when it stops on eos.
Stopped(s) ==
    /\ Entered(s)
    /\ EosSelected(s) \/ Len(Generated(s)) = size[s]

C5_QueryCount ==
    \A s \in Sessions :
        /\ Len(queries[s]) <= size[s]
        /\ EosSelected(s) => Len(queries[s]) = Len(Generated(s)) + 1

C5_StoppedIsTerminal ==
    /\ []C5_QueryCount
    /\ [][\A s \in Sessions : Stopped(s) => queries'[s] = queries[s]]_vars

C5_Witness ==
    /\ pc["first"] = "done"
    /\ EosSelected("first")
    /\ Len(queries["first"]) = MaxSize
    /\ size["first"] = MaxSize

\* C6: the index generate selects is one of maximal probability in the
\* vector returned for the last position, and no smaller index has that
\* probability.
C6_ArgmaxLowestIndex ==
    \A s \in Sessions :
        (mode[s] = "generate" /\ selected[s] # <<>>) =>
            \A j \in DOMAIN out[s] :
                /\ out[s][j] <= out[s][Last(selected[s])]
                /\ j < Last(selected[s]) =>
                      out[s][j] < out[s][Last(selected[s])]

C6_Witness ==
    /\ mode["first"] = "generate"
    /\ selected["first"] # <<>>
    /\ Last(selected["first"]) = 1
    /\ \E j \in DOMAIN out["first"] :
          j > 1 /\ out["first"][j] = out["first"][1]

\* C7: greedy decoding is deterministic.  A second call of generate with
\* the same network, seed and size asks the network the same inputs, selects
\* the same indices and builds the same list, step by step, and returns the
\* same text (or raises where the first call raised).
IsPrefix(p, q) == Len(p) <= Len(q) /\ p = SubSeq(q, 1, Len(p))

C7_GreedyDeterministic ==
    Entered("second") =>
        /\ IsPrefix(queries["second"], queries["first"])
        /\ IsPrefix(selected["second"], selected["first"])
        /\ IsPrefix(chars["second"], chars["first"])
        /\ IsPrefix(inp["second"], inp["first"])
        /\ i["second"] <= i["first"]
        /\ pc["second"] \in {"break", "done", "raised"} =>
              /\ chars["second"] = chars["first"]
              /\ queries["second"] = queries["first"]
              /\ pc["second"] = "raised" <=> pc["first"] = "raised"
        /\ pc["second"] = "done" => result["second"] = result["first"]

C7_Witness ==
    /\ pc["second"] = "done"
    /\ Len(queries["second"]) = MaxSize
    /\ Len(chars["second"]) > Len(Seed("second")) + 1
    /\ result["second"] = result["first"]

\* C8: round trip.  A text made of vocabulary characters only is returned
\* unchanged by decode after texts_to_sequences.
VocabularyCharacters == DOMAIN word_index \ {EosWord}

C8_RoundTrip ==
    \A s \in Sessions :
        (/\ pc[s] = "decoded"
         /\ chars[s] = Encode(start[s])
         /\ Range(start[s]) \subseteq VocabularyCharacters) =>
            result[s] = start[s]

C8_Witness ==
    /\ pc["first"] = "decoded"
    /\ Len(start["first"]) = 2
    /\ start["first"][1] # start["first"][2]
    /\ Range(start["first"]) \subseteq VocabularyCharacters
    /\ chars["first"] = Encode(start["first"])
    /\ result["first"] = start["first"]

IsEos(t) == t = eos_token

Known(t) == t \in DOMAIN reverse_map

C10_DecodeTotal ==
    \A s \in Sessions :
        pc[s] = "decoded" =>
            /\ result[s] = decode(SelectSeq(chars[s], Known))
            /\ \A k \in 1..Len(result[s]) :
                  result[s][k] \in Alphabet \cup Range(Marker)
            /\ (\A k \in 1..Len(chars[s]) : ~Known(chars[s][k])) =>
                  result[s] = <<>>

C10_Witness ==
    /\ pc["first"] = "decoded"
    /\ chars["first"] = <<0, vocab_size>>
    /\ result["first"] = <<>>

\* C11: the vocabulary is a bijection between its keys and the indices given
\* to them: no two keys share an index, reverse_map is the inverse of
\* word_index, and the characters hold exactly the indices 1..eos_token-1.
\* eos_token is the index of no character and is below vocab_size, so every
\* index of a vector of vocab_size entries is a character's index, eos_token
\* or the index 0 that no key holds.
CharacterIndices == {word_index[c] : c \in VocabularyCharacters}

C11_VocabularyBijection ==
    /\ \A c, d \in DOMAIN word_index : word_index[c] = word_index[d] => c = d
    /\ DOMAIN reverse_map = Range(word_index)
    /\ \A c \in DOMAIN word_index : reverse_map[word_index[c]] = c
    /\ CharacterIndices = 1..(eos_token - 1)
    /\ eos_token = Cardinality(VocabularyCharacters) + 1
    /\ eos_token \notin CharacterIndices
    /\ word_index[EosWord] = eos_token
    /\ eos_token < vocab_size
    /\ 0 \notin Range(word_index)
    /\ Indices = {0} \cup CharacterIndices \cup {eos_token}
    /\ \A s \in Sessions : \A k \in 1..Len(selected[s]) :
          selected[s][k] \in {0} \cup CharacterIndices \cup {eos_token}

C11_Witness ==
    /\ Cardinality(VocabularyCharacters) = Cardinality(Alphabet)
    /\ \E s \in Sessions : \E k \in 1..Len(selected[s]) :
          selected[s][k] \in CharacterIndices
    /\ \E s \in Sessions : EosSelected(s)

InVocabulary(c) == c \in VocabularyCharacters

C13_InvalidTemperatureRejected ==
    \A s \in Sessions :
        (/\ Entered(s)
         /\ mode[s] = "generate_soft"
         /\ Seed(s) # <<>>
         /\ temperature[s][1] <= 0) =>
            /\ pc[s] # "done"
            /\ Generated(s) = <<>>
            /\ exception[s] \in {"none", "InvalidTemperature"}

\* C14 as stated: generate and generate_soft called with a start that
\* encodes to no token end with the error EmptySeed before the network is
\* called, and return no text.
C14_EmptySeedRejected ==
    \A s \in Sessions :
        (Entered(s) /\ Seed(s) = <<>>) =>
            /\ queries[s] = <<>>
            /\ pc[s] # "done"
            /\ exception[s] \in {"none", "EmptySeed"}

\* C15: the characters of start that are not in the vocabulary are skipped
\* without an error: the list generate works on begins with the indices of
\* the remaining characters, in their order, the first call of the network
\* gets exactly that list, every token generated is appended after it, and
\* the call raises only if no character remains.
Kept(s) == SelectSeq(start[s], InVocabulary)
KeptIndices(s) == [k \in 1..Len(Kept(s)) |-> word_index[Kept(s)[k]]]

C15_UnknownCharactersSkipped ==
    \A s \in Sessions :
        Entered(s) =>
            /\ chars[s] = KeptIndices(s) \o SelectSeq(selected[s], NotEos)
            /\ queries[s] # <<>> => queries[s][1] = KeptIndices(s)
            /\ pc[s] = "raised" => KeptIndices(s) = <<>>
            /\ pc[s] = "done" =>
                  result[s] = Kept(s) \o decode(SelectSeq(selected[s], NotEos))

C15_Witness ==
    \E s \in Sessions :
        /\ pc[s] = "done"
        /\ Len(start[s]) = MaxStubSeedLen
        /\ Kept(s) # <<>>
        /\ Len(Kept(s)) < Len(start[s])
        /\ Head(start[s]) \notin VocabularyCharacters
        /\ Len(chars[s]) > Len(Kept(s))

\* C16: when a call of the network raises inside generate or generate_soft,
\* the exception leaves the function: the call has ended with that
\* exception, it has returned no text, and from then on the network is not
\* called again and nothing of the call changes.
NetworkFailed(s) == exception[s] = "NetworkError"

C16_FailureEndsCall ==
    \A s \in Sessions :
        NetworkFailed(s) =>
            /\ pc[s] = "raised"
            /\ result[s] = <<>>
            /\ queries[s] # <<>>
            /\ Len(selected[s]) = Len(queries[s]) - 1

C16_FailurePropagates ==
    /\ []C16_FailureEndsCall
    /\ [][\A s \in Sessions :
            NetworkFailed(s) =>
                /\ queries'[s] = queries[s]
                /\ pc'[s] = pc[s]
                /\ chars'[s] = chars[s]
                /\ result'[s] = result[s]
                /\ exception'[s] = exception[s]]_vars

C16_Witness ==
    \E s \in Sessions :
        /\ NetworkFailed(s)
        /\ pc[s] = "raised"
        /\ Len(queries[s]) = MaxSize
        /\ Len(Generated(s)) = MaxSize - 1

\* C17 as stated: a vector from the network that is no distribution over
\* the vocab_size indices ends the call with an error at that step: no
\* token is selected from it and nothing is appended.
C17_MalformedFailsFast ==
    \A s \in Sessions :
        (out[s] # <<>> /\ out[s] \in Malformed) =>
            /\ Len(selected[s]) < Len(queries[s])
            /\ pc[s] = "raised"

\* C18 as stated: when the first index generate selects is eos_token, it
\* returns the text start itself, with no token appended, for any size >= 1.
EosFirst(s) ==
    /\ mode[s] = "generate"
    /\ size[s] >= 1
    /\ selected[s] # <<>>
    /\ Head(selected[s]) = eos_token

C18_EosFirstReturnsSeed ==
    \A s \in Sessions :
        (EosFirst(s) /\ pc[s] = "done") =>
            /\ Generated(s) = <<>>
            /\ result[s] = start[s]

\* C18, amended: when the first index generate selects is eos_token, no
\* token is appended and the network is not called again, for any
\* size >= 1; the text returned is start without its characters that are
\* not in the vocabulary, so a start of vocabulary characters comes back
\* as it is.  With the vocabulary {'a':1,'b':2,'c':3,'<eos>':4}, a network
\* that always puts all probability on index 4, start "a" and size 10 the
\* result is "a".
C18_EosFirstReturnsKnownSeed ==
    \A s \in Sessions :
        /\ EosFirst(s) =>
              /\ selected[s] = <<eos_token>>
              /\ Len(queries[s]) = 1
              /\ chars[s] = KeptIndices(s)
              /\ pc[s] \in {"break", "done"}
              /\ pc[s] = "done" =>
                    /\ result[s] = Kept(s)
                    /\ Range(start[s]) \subseteq VocabularyCharacters =>
                          result[s] = start[s]
        /\ (/\ stub = "eos"
            /\ mode[s] = "generate"
            /\ pc[s] = "done"
            /\ start[s] = <<"a">>
            /\ size[s] = 10) =>
              /\ word_index = [c \in {"a", "b", "c", EosWord} |->
                                  CASE c = "a" -> 1 [] c = "b" -> 2
                                    [] c = "c" -> 3 [] OTHER -> 4]
              /\ result[s] = <<"a">>
              /\ EosFirst(s)

C18_Witness ==
    \E s \in Sessions :
        /\ stub = "eos"
        /\ pc[s] = "done"
        /\ start[s] = <<"a">>
        /\ size[s] = 10
        /\ EosFirst(s)
        /\ result[s] = <<"a">>

\* C19 as stated: with the vocabulary {'a':1,'b':2,'c':3,'<eos>':4} and a
\* network that puts all probability on the indices 1, 2, 3, 4 in turn, one
\* per call, generate with start "a" and size 5 returns "abc".
CycleScenario(s) ==
    /\ stub = "cycle"
    /\ mode[s] = "generate"
    /\ pc[s] = "done"
    /\ start[s] = <<"a">>
    /\ size[s] = 5

C19_CycleReturnsAbc ==
    \A s \in Sessions : CycleScenario(s) => result[s] = <<"a", "b", "c">>

\* C19, amended: in that scenario generate selects 1, 2, 3 and then
\* eos_token, appends the first three and returns "a" + decode([1,2,3]),
\* which is "aabc", cut at the eos token after four calls of the network.
C19_CycleReturnsAabc ==
    \A s \in Sessions :
        CycleScenario(s) =>
            /\ selected[s] = <<1, 2, 3, eos_token>>
            /\ Len(queries[s]) = 4
            /\ chars[s] = <<1, 1, 2, 3>>
            /\ result[s] = <<"a", "a", "b", "c">>

C19_Witness ==
    \E s \in Sessions :
        /\ CycleScenario(s)
        /\ eos_token = 4
        /\ result[s] = <<"a">> \o decode(<<1, 2, 3>>)

C21_SameSeedSameText ==
    (/\ pc["first"] = "done"
     /\ pc["second"] = "done"
     /\ mode["second"] = "generate_soft"
     /\ start["second"] = start["first"]
     /\ size["second"] = size["first"]
     /\ temperature["second"] = temperature["first"]) =>
        result["second"] = result["first"]

\* C22: when the iterations of two calls of generate interleave, each call
\* has at every step the list, and at its end the text, that the same call
\* has when it runs alone with the same network: the list after k
\* iterations is what k iterations from its own encoded start give, and two
\* calls with the same arguments differ only in how far they have come.
RECURSIVE Alone(_, _, _, _)
Alone(q, cs, shared, k) ==
    IF k = 0 \/ q \notin DOMAIN model THEN cs
    ELSE LET nc == argmax(model[q])
         IN  IF Breaks(nc) THEN cs
             ELSE Alone(InpPlus(q, CharsAppend(cs, nc), shared, nc),
                        CharsAppend(cs, nc), FALSE, k - 1)

C22_SessionsIndependent ==
    /\ \A s \in Sessions :
          Entered(s) =>
              /\ chars[s] = Alone(Seed(s), Seed(s), TRUE, Len(selected[s]))
              /\ pc[s] = "done" =>
                    result[s] = decode(Alone(Seed(s), Seed(s), TRUE, size[s]))
    /\ (/\ Entered("first") /\ Entered("second")
        /\ start["first"] = start["second"]
        /\ size["first"] = size["second"]) =>
          \/ IsPrefix(chars["first"], chars["second"])
          \/ IsPrefix(chars["second"], chars["first"])

C22_Witness ==
    /\ pc["first"] = "loop" /\ pc["second"] = "done"
    /\ i["first"] = 1
    /\ HasNext(i["first"], size["first"])
    /\ Len(Generated("second")) = 1
    /\ size["first"] # size["second"]
    /\ result["second"] # start["second"]

\* The odds of drawing index j against index m from the vector v rescaled
\* with temperature 1/k are at most v[j]/(v[j]+k): they vanish as the
\* temperature goes to 0.
Vanishing(v, t, j, m) ==
    Rescale(v, t)[j] * (v[j] + t[2]) <= v[j] * Rescale(v, t)[m]

Sampled(s) == mode[s] = "generate_soft" /\ out[s] # <<>>

Built == batch # <<>>
KeptOf(text) == SelectSeq(text, InVocabulary)

RECURSIVE SumOf(_, _)
SumOf(seq, field) ==
    IF seq = <<>> THEN 0 ELSE seq[1][field] + SumOf(Tail(seq), field)

RECURSIVE Total(_)
Total(seq) == IF seq = <<>> THEN 0 ELSE seq[1] + Total(Tail(seq))

SameQuotient(a, b) == a[2] # 0 /\ b[2] # 0 /\ a[1] * b[2] = b[1] * a[2]

Evaluating == loop # <<>> /\ "evaluated" \in DOMAIN loop

\* C25: evaluate hands every mini-batch of the dataset to
\* evaluate_one_batch once, in dataset order, and returns the sum of the
\* batch losses over the number of batches and the number of matching
\* items over the number of items seen.
C25_EvaluateAverages ==
    Evaluating =>
        /\ \A k \in 1..Len(loop.evaluated) : loop.evaluated[k].batch = k
        /\ Len(loop.evaluated) <= Len(loop.dataset)
        /\ loop.at = "returned" =>
              /\ Len(loop.evaluated) = Len(loop.dataset)
              /\ SameQuotient(loop.returned[1],
                     <<SumOf(loop.evaluated, "loss"), Len(loop.dataset)>>)
              /\ SameQuotient(loop.returned[2],
                     <<SumOf(loop.evaluated, "correct"),
                       Total(loop.dataset)>>)

C25_Witness ==
    /\ Evaluating
    /\ loop.at = "returned"
    /\ Len(loop.dataset) = MaxDatasetLen
    /\ loop.dataset[1] # loop.dataset[MaxDatasetLen]
    /\ loop.returned[1] = <<MaxLoss, MaxDatasetLen>>
    /\ loop.returned[2] = <<1, Total(loop.dataset)>>

Fitting == loop # <<>> /\ "fitted" \in DOMAIN loop

Due(k, batch_count) == k % 100 = 0 \/ k = batch_count

\* C30: in every epoch fit hands each mini-batch to fit_one_batch once, in
\* dataset order, with one optimizer update per call, so that a finished
\* run has made epochs x batch_count updates; correct_item_count never
\* exceeds current_item_count; and the lines printed in an epoch are, in
\* increasing order and each once, the 1-based batch indices that are
\* multiples of 100 and the index of the final batch.
C30_FitUpdatesAndReports ==
    Fitting =>
        /\ \A k \in 1..Len(loop.fitted) : loop.fitted[k] = k
        /\ Len(loop.fitted) <= loop.dataset.batch_count
        /\ loop.updates =
              loop.epoch * loop.dataset.batch_count
              + (IF loop.at = "for" THEN Len(loop.fitted) ELSE 0)
        /\ (loop.at = "epoch" /\ loop.epoch = loop.epochs) =>
              loop.updates = loop.epochs * loop.dataset.batch_count
        /\ (loop.at = "epoch" /\ loop.epoch > 0) =>
              Len(loop.fitted) = loop.dataset.batch_count
        /\ loop.correct_item_count <= loop.current_item_count
        /\ \A k \in 1..Len(loop.fitted) :
              Due(k, loop.dataset.batch_count) <=>
                  \E n \in 1..Len(loop.printed) : loop.printed[n] = k
        /\ \A n \in 1..(Len(loop.printed) - 1) :
              loop.printed[n] < loop.printed[n + 1]
        /\ \A n \in 1..Len(loop.printed) :
              loop.printed[n] \in 1..Len(loop.fitted)

C30_Witness ==
    /\ Fitting
    /\ loop.at = "epoch"
    /\ loop.epoch = MaxEpochs
    /\ loop.epochs = MaxEpochs
    /\ loop.dataset.batch_count = MaxHundreds * 100
    /\ loop.dataset.last < loop.dataset.batch_size
    /\ Len(loop.printed) = MaxHundreds
    /\ loop.updates = MaxEpochs * MaxHundreds * 100
    /\ 0 < loop.correct_item_count
    /\ loop.correct_item_count < loop.current_item_count

Grows(old, new) == IsPrefix(old, new) /\ Len(new) <= Len(old) + 1

\* C26: the token sequence of a session, the list that is decoded as well
\* as the list that is fed to the network, only grows at its end, by at most
\* one token per step, and begins with the encoded seed.
C26_AppendOnly ==
    [][\A s \in Sessions :
          (Entered(s) /\ Entered(s)') =>
              /\ Grows(chars[s], chars'[s])
              /\ Grows(inp[s], inp'[s])
              /\ IsPrefix(Seed(s), chars[s])'
              /\ IsPrefix(Seed(s), inp[s])']_vars

AllIn(seq, set) == \A k \in 1..Len(seq) : seq[k] \in set

\* C27: every element of the token sequence of a session is an index that
\* the vocabulary assigns to a character, whatever vectors of length
\* vocab_size the network returns.
C27_ValidIndices ==
    \A s \in Sessions :
        Entered(s) =>
            /\ AllIn(chars[s], CharacterIndices)
            /\ AllIn(inp[s], CharacterIndices)

\* Where the loop controller of a session stands, read from the position
\* of the call: after break, after the last iteration of range(size), left
\* by an exception, or with another iteration to come.
StopReason(s) ==
    CASE pc[s] = "break" \/ (pc[s] = "done" /\ HasNext(i[s], size[s])) ->
            "EndOfSequenceEmitted"
      [] pc[s] \in {"loop", "done"} /\ ~HasNext(i[s], size[s]) ->
            "MaxLengthReached"
      [] pc[s] = "raised" -> "Exception"
      [] OTHER -> "Running"

ReasonMatches(s) ==
    /\ StopReason(s) \in
          {"Running", "EndOfSequenceEmitted", "MaxLengthReached"}
    /\ StopReason(s) = "EndOfSequenceEmitted" <=> EosSelected(s)
    /\ StopReason(s) = "MaxLengthReached" <=>
          (Len(Generated(s)) = size[s] /\ ~EosSelected(s))

StepOrStop(s) ==
    /\ StopReason(s) = "Running" =>
          \/ /\ Len(chars[s]') = Len(chars[s]) + 1
             /\ StopReason(s)' \in {"Running", "MaxLengthReached"}
          \/ /\ chars[s]' = chars[s]
             /\ StopReason(s)' = "EndOfSequenceEmitted"
    /\ StopReason(s) # "Running" =>
          /\ StopReason(s)' = StopReason(s)
          /\ chars[s]' = chars[s]

\* C28: a session is Running until it stops; a step of a Running session
\* appends one token or stops it; it is stopped with EndOfSequenceEmitted
\* exactly when the selected token is eos_token, with MaxLengthReached
\* exactly when size tokens were appended and eos_token was not selected,
\* for no other reason, and a stopped session stays as it is.
C28_RunningThenStopped ==
    /\ [](\A s \in Sessions : Entered(s) => ReasonMatches(s))
    /\ [][\A s \in Sessions : Entered(s) => StepOrStop(s)]_vars

Positive(t) == t[1] > 0 /\ t[2] > 0

\* C29: with a positive temperature every step of generate_soft draws one
\* index, and the index has a raw probability that is not zero: no step
\* ends without a draw, and an entry of raw probability zero is never
\* selected.
C29_DrawsNonZero ==
    \A s \in Sessions :
        (Sampled(s) /\ Positive(temperature[s])) =>
            /\ exception[s] = "none"
            /\ Len(selected[s]) = Len(queries[s])
            /\ out[s][Last(selected[s])] > 0
====
